---------------------------- MODULE Spec2Model ----------------------------
(***************************************************************************)
(* Model of the browser-tools element command (scripts/element.js) and the *)
(* shared helpers it uses from scripts/config.js.                          *)
(*                                                                         *)
(* Two execution contexts cooperate: the controlling process (main of      *)
(* element.js, resolveElement, pickElement) and the page, where the        *)
(* interactive picker's listeners run.  Strings of the program are         *)
(* sequences of tokens (one token per character, or one token for a        *)
(* literal the code emits whole), so that formatting is computed and not   *)
(* assumed.                                                                *)
(***************************************************************************)
EXTENDS Integers, Sequences, FiniteSets, TLC

Null == "null"

(***************************************************************************)
(* Program constants.                                                      *)
(***************************************************************************)
DEFAULT_PORT == 9222

DEFAULT_TIMEOUT == 15000

PICKER_FALLBACK_TIMEOUT == 60000

TEXT_LIMIT == 160

PickerOutline == "3px solid #ff4444"

PickerCursor == "crosshair"

(***************************************************************************)
(* Bounds of the model.                                                    *)
(***************************************************************************)
MaxPages == 2

\* elements in a document selector synthesis is exercised on
MaxNodes == 4

(***************************************************************************)
(* State.                                                                  *)
(***************************************************************************)
VARIABLES
    args,           \* parsed command line: sel, text, scroll, click, json, timeout
    pages,          \* the pages the browser has open, in enumeration order
    pristine,       \* the page's styling before the command: outline, cursor
    pageListeners,  \* where the page has click listeners of its own
    pageAlive,      \* FALSE once the page's event loop has stopped running
    outline,        \* element.style.outline of every HTML element
    cursor,         \* document.body.style.cursor
    scrollY,        \* the viewport's scroll offset
    window,         \* the picker's globals: __BT_PICKED_ELEMENT, __BT_PICKER_CANCEL
    listeners,      \* the picker's installed listeners
    timerId,        \* the armed in-page timer (its delay), or 0
    state,          \* the picker's state object: highlight, previousOutline, resolved
    originalCursor, \* the cursor the picker saved on entry
    promise,        \* the in-page promise: status, value
    cleanupCount,   \* how many times cleanup has run
    outcomes,       \* the terminal transitions taken, in order: by, target
    lastClick,      \* what became of the most recent click event in the page
    pc,             \* where the controlling process is
    browser,        \* "none", "connected" or "disconnected"
    stdout,
    stderr,
    exitCode,
    trace,          \* the steps the controlling process has taken, in order
    result,         \* what page.evaluate returned to pickElement
    elementResult,  \* what resolveElement returned: handle, info
    disposed,       \* the element handles the command has disposed
    doc,            \* the document selector synthesis is applied to
    probe,          \* a synthesized selector and what querying it returned
    conn,           \* resolveBrowserConnection: flags, environment, result
    lookup,         \* getActivePage: the index asked for and the page returned
    active,         \* the page each page-targeting command resolved
    close           \* close.js: its flags, its position and its result object

pageVars == <<pristine, pageListeners, pageAlive, outline, cursor, scrollY, window,
              listeners, timerId, state, originalCursor, promise, cleanupCount,
              outcomes, lastClick>>

hostVars == <<args, pages, pc, browser, stdout, stderr, exitCode, trace, result,
              elementResult, disposed>>

probeVars == <<doc, probe>>

pagesVars == <<lookup, active>>

\* the variables of the functions and commands modelled on their own
sideVars == <<doc, probe, conn, lookup, active, close>>

vars == <<args, pages, pristine, pageListeners, pageAlive, outline, cursor, scrollY,
          window, listeners, timerId, state, originalCursor, promise, cleanupCount,
          outcomes, lastClick, pc, browser, stdout, stderr, exitCode, trace, result,
          elementResult, disposed, doc, probe, conn, lookup, active, close>>

(***************************************************************************)
(* The page's document.  A document is a record of functions over its      *)
(* element nodes; Dom is the document of the page the command works on.    *)
(***************************************************************************)
Nodes == {"html", "body", "e1", "e2", "svg1"}

Dom ==
    [ parentElement |-> [n \in Nodes |->
          CASE n = "html" -> Null
            [] n = "body" -> "html"
            [] n = "e1"   -> "body"
            [] n = "e2"   -> "body"
            [] n = "svg1" -> "e1"],
      children |-> [n \in Nodes |->
          CASE n = "html" -> <<"body">>
            [] n = "body" -> <<"e1", "e2">>
            [] n = "e1"   -> <<"svg1">>
            [] OTHER      -> <<>>],
      nodeName |-> [n \in Nodes |->
          CASE n = "html" -> "HTML"
            [] n = "body" -> "BODY"
            [] n = "svg1" -> "svg"
            [] OTHER      -> "DIV"],
      id |-> [n \in Nodes |->
          CASE n = "e1" -> <<"m", ":", "1">>
            [] OTHER    -> <<>>],
      classList |-> [n \in Nodes |->
          CASE n = "e2"   -> << <<"b", "t", "n">>, <<"o", "k">> >>
            [] n = "svg1" -> << <<"i", "c">> >>
            [] OTHER      -> <<>>],
      text |-> [n \in Nodes |->
          CASE n = "e1" -> <<" ", "G", "o", " ", "\"", "O", "k", "\"", " ">>
            [] n = "e2" -> <<"O", "k">>
            [] OTHER    -> <<>>],
      attributes |-> [n \in Nodes |->
          CASE n = "e1"   -> {<<"id", "m:1">>}
            [] n = "e2"   -> {<<"class", "btn ok">>}
            [] n = "svg1" -> {<<"class", "ic">>}
            [] OTHER      -> {}],
      docY |-> [n \in Nodes |->
          CASE n = "e2"   -> 1
            [] OTHER      -> 0],
      offsetParent |-> [n \in Nodes |->
          CASE n = "e1" -> "body"
            [] n = "e2" -> "body"
            [] OTHER    -> Null],
      isHTMLElement |-> [n \in Nodes |-> n # "svg1"] ]

HtmlElements == {n \in Nodes : Dom.isHTMLElement[n]}

\* Nodes a pointer event can have as its target.
Targets == {"body", "e1", "e2", "svg1"}

(***************************************************************************)
(* String helpers.                                                         *)
(***************************************************************************)
IdentChars == {"a", "b", "c", "i", "k", "m", "n", "o", "t", "G", "O",
               "0", "1", "2", "_", "-"}

DigitChars == {"0", "1", "2"}

\* String.prototype.toLowerCase on the node names the documents use
toLowerCase(name) ==
    CASE name = "HTML" -> <<"h", "t", "m", "l">>
      [] name = "BODY" -> <<"b", "o", "d", "y">>
      [] name = "DIV"  -> <<"d", "i", "v">>
      [] name = "SPAN" -> <<"s", "p", "a", "n">>
      [] name = "svg"  -> <<"s", "v", "g">>
      [] name = "clipPath" -> <<"c", "l", "i", "p", "p", "a", "t", "h">>

\* the characters of a node name as the document has them
nameChars(name) ==
    CASE name = "svg"      -> <<"s", "v", "g">>
      [] name = "clipPath" -> <<"c", "l", "i", "p", "P", "a", "t", "h">>
      [] OTHER             -> toLowerCase(name)

RECURSIVE Flatten(_)
Flatten(seqs) ==
    IF seqs = <<>> THEN <<>> ELSE Head(seqs) \o Flatten(Tail(seqs))

RECURSIVE Join(_, _)
Join(parts, sep) ==
    IF parts = <<>> THEN <<>>
    ELSE IF Len(parts) = 1 THEN Head(parts)
    ELSE Head(parts) \o sep \o Join(Tail(parts), sep)

\* window.CSS.escape(value): a digit that starts the identifier (or follows
\* a leading "-") is written as its code point, \3d and a space; a lone "-"
\* and every other character outside the identifier characters get a
\* backslash
cssEscape(value) ==
    Flatten([i \in 1..Len(value) |->
        IF value[i] \in DigitChars /\ (i = 1 \/ (i = 2 /\ value[1] = "-"))
        THEN <<"\\", "3", value[i], " ">>
        ELSE IF value[i] = "-" /\ Len(value) = 1 THEN <<"\\", "-">>
        ELSE IF value[i] \in IdentChars THEN <<value[i]>>
        ELSE <<"\\", value[i]>>])

\* value.replace(/[^a-zA-Z0-9_\-]/g, (char) => `\\${char}`)
regexEscape(value) ==
    Flatten([i \in 1..Len(value) |->
        IF value[i] \in IdentChars THEN <<value[i]>> ELSE <<"\\", value[i]>>])

\* window.CSS && typeof window.CSS.escape === "function": the browser the
\* command drives is Chrome, whose pages have CSS.escape
CssEscapeAvailable == TRUE

\* escapeIdent: CSS.escape where the page has it, the regular expression
\* otherwise
escapeIdent(value) ==
    IF CssEscapeAvailable THEN cssEscape(value) ELSE regexEscape(value)

RECURSIVE TrimLeft(_)
TrimLeft(s) ==
    IF s # <<>> /\ Head(s) = " " THEN TrimLeft(Tail(s)) ELSE s

RECURSIVE TrimRight(_)
TrimRight(s) ==
    IF s # <<>> /\ s[Len(s)] = " " THEN TrimRight(SubSeq(s, 1, Len(s) - 1)) ELSE s

trim(s) == TrimRight(TrimLeft(s))

slice(s, n) == IF Len(s) <= n THEN s ELSE SubSeq(s, 1, n)

DigitTokens == <<"1", "2", "3", "4", "5", "6", "7", "8", "9">>

\* the decimal digit of a position from 1 to 9
Digit(n) == DigitTokens[n]

DigitValue(tok) ==
    IF \E k \in 1..Len(DigitTokens) : DigitTokens[k] = tok
    THEN CHOOSE k \in 1..Len(DigitTokens) : DigitTokens[k] = tok
    ELSE 0

\* position of x in the sequence s, 0 when absent (Array.indexOf + 1)
RECURSIVE IndexOf(_, _)
IndexOf(s, x) ==
    IF s = <<>> THEN 0
    ELSE IF s[Len(s)] = x /\ IndexOf(SubSeq(s, 1, Len(s) - 1), x) = 0 THEN Len(s)
    ELSE IndexOf(SubSeq(s, 1, Len(s) - 1), x)

RECURSIVE FilterSameName(_, _, _)
FilterSameName(d, kids, name) ==
    IF kids = <<>> THEN <<>>
    ELSE IF d.nodeName[Head(kids)] = name
         THEN <<Head(kids)>> \o FilterSameName(d, Tail(kids), name)
         ELSE FilterSameName(d, Tail(kids), name)

(***************************************************************************)
(* Selector synthesis: the ancestor walk of toSelector.                    *)
(***************************************************************************)
\* the suffix added whenever the node has a parent
needsNth_always(siblings) == Len(siblings) > 0

\* if (siblings.length > 1)
needsNth(siblings) == Len(siblings) > 1

SelectorPart(d, current) ==
    LET name    == toLowerCase(d.nodeName[current])
        classes == IF Len(d.classList[current]) > 0
                   THEN Flatten([i \in 1..Len(d.classList[current]) |->
                            <<".">> \o escapeIdent(d.classList[current][i])])
                   ELSE <<>>
        parent  == d.parentElement[current]
        siblings == IF parent = Null THEN <<>>
                    ELSE FilterSameName(d, d.children[parent], d.nodeName[current])
        nth     == IF parent # Null /\ needsNth(siblings)
                   THEN <<":nth-of-type(", Digit(IndexOf(siblings, current)), ")">>
                   ELSE <<>>
    IN  name \o classes \o nth

\* the id segment with the tag name kept in front of it
idPart_withTag(d, current) ==
    toLowerCase(d.nodeName[current]) \o <<"#">> \o escapeIdent(d.id[current])

\* part = `#${escapeIdent(current.id)}`
idPart(d, current) ==
    <<"#">> \o escapeIdent(d.id[current])

RECURSIVE SelectorParts(_, _)
SelectorParts(d, current) ==
    IF current = Null THEN <<>>
    ELSE IF d.id[current] # <<>>
         THEN << idPart(d, current) >>
         ELSE SelectorParts(d, d.parentElement[current]) \o <<SelectorPart(d, current)>>

toSelector(d, element) == Join(SelectorParts(d, element), <<" > ">>)

(***************************************************************************)
(* Descriptors.                                                            *)
(***************************************************************************)
NoHint == <<>>

\* el.textContent: the element's own text followed by its descendants'
RECURSIVE textContent(_, _)
textContent(d, el) ==
    d.text[el]
    \o Flatten([i \in 1..Len(d.children[el]) |-> textContent(d, d.children[el][i])])

rectOf(d, el, scroll) == [x |-> 0, y |-> d.docY[el] - scroll]

\* the selector field always synthesized
selectorField_synthesized(d, el, selectorHint) ==
    toSelector(d, el)

\* selector: selectorHint ?? toSelector(el)
selectorField(d, el, selectorHint) ==
    IF selectorHint # NoHint THEN selectorHint ELSE toSelector(d, el)

\* the function evaluated in the page by collectElementInfo
collectElementInfo(d, el, selectorHint, scroll) ==
    [ selector   |-> selectorField(d, el, selectorHint),
      tag        |-> toLowerCase(d.nodeName[el]),
      id         |-> d.id[el],
      classes    |-> d.classList[el],
      text       |-> slice(trim(textContent(d, el)), TEXT_LIMIT),
      attributes |-> d.attributes[el],
      rect       |-> rectOf(d, el, scroll),
      visible    |-> d.offsetParent[el] # Null,
      children   |-> Len(d.children[el]) ]

NoInfo ==
    [ selector |-> <<>>, tag |-> <<>>, id |-> <<>>, classes |-> <<>>, text |-> <<>>,
      attributes |-> {}, rect |-> [x |-> 0, y |-> 0], visible |-> FALSE, children |-> 0 ]

NoElement == [handle |-> Null, info |-> NoInfo]

\* buildInfo of the picker
buildInfo(d, element, scroll) ==
    [ tag  |-> toLowerCase(d.nodeName[element]),
      text |-> slice(trim(textContent(d, element)), TEXT_LIMIT),
      rect |-> rectOf(d, element, scroll) ]

\* the value the in-page promise settles with: null, or { ...info, selector }
NullResult ==
    [ some |-> FALSE, tag |-> <<>>, text |-> <<>>, rect |-> [x |-> 0, y |-> 0],
      selector |-> <<>> ]

\* resolveSelection describing the highlighted node instead of the event's target
resolveSelection_highlighted(d, element, scroll) ==
    LET node == IF state.highlight # Null THEN state.highlight ELSE element
        info == buildInfo(d, node, scroll)
    IN  [ some |-> TRUE, tag |-> info.tag, text |-> info.text, rect |-> info.rect,
          selector |-> toSelector(d, node) ]

resolveSelection(d, element, scroll) ==
    IF element = Null THEN NullResult
    ELSE LET info == buildInfo(d, element, scroll)
         IN  [ some |-> TRUE, tag |-> info.tag, text |-> info.text, rect |-> info.rect,
               selector |-> toSelector(d, element) ]

(***************************************************************************)
(* Session accessor (config.js).                                           *)
(***************************************************************************)
MOST_RECENT == -1

\* the accessor with the sentinel taken as the first page
getActivePage_first(ps, index) ==
    IF Len(ps) = 0 THEN Null
    ELSE IF index = MOST_RECENT THEN ps[1]
    ELSE IF index + 1 \in 1..Len(ps) THEN ps[index + 1]
    ELSE Null

getActivePage(ps, index) ==
    IF Len(ps) = 0 THEN Null
    ELSE IF index = MOST_RECENT THEN ps[Len(ps)]
    ELSE IF index + 1 \in 1..Len(ps) THEN ps[index + 1]
    ELSE Null

DecimalDigits == {"0", "1", "2", "3", "4", "5", "6", "7", "8", "9"}

RECURSIVE DecimalValue(_)
DecimalValue(s) ==
    IF s = <<>> THEN 0
    ELSE DecimalValue(SubSeq(s, 1, Len(s) - 1)) * 10 + DigitValue(s[Len(s)])

RECURSIVE DecimalString(_)
DecimalString(n) ==
    IF n < 10 THEN <<IF n = 0 THEN "0" ELSE DigitTokens[n]>>
    ELSE Append(DecimalString(n \div 10),
                IF n % 10 = 0 THEN "0" ELSE DigitTokens[n % 10])

\* Number(string): white space is trimmed; the empty string is 0, a decimal
\* numeral is its value, "Infinity" is the infinity, anything else is NaN
StringToNumber(s) ==
    LET t == trim(s)
    IN  IF t = <<>> THEN [kind |-> "num", n |-> 0, s |-> <<>>]
        ELSE IF \A i \in 1..Len(t) : t[i] \in DecimalDigits
        THEN [kind |-> "num", n |-> DecimalValue(t), s |-> <<>>]
        ELSE IF t = <<"I", "n", "f", "i", "n", "i", "t", "y">>
        THEN [kind |-> "inf", n |-> 0, s |-> <<>>]
        ELSE [kind |-> "nan", n |-> 0, s |-> <<>>]

\* number = typeof value === "string" ? Number(value) : value;
\* Number.isFinite(number) ? number : fallback
normalizeNumber(value, fallback) ==
    LET number == IF value.kind = "str" THEN StringToNumber(value.s) ELSE value
    IN  IF number.kind = "num" THEN number.n ELSE fallback

(***************************************************************************)
(* Inputs.                                                                 *)
(***************************************************************************)
Absent == [kind |-> "absent", n |-> 0]

Num(k) == [kind |-> "num", n |-> k]

\* --timeout as given on the command line
TimeoutFlags == {Absent, Num(0), Num(50)}

\* positional selectors: one that matches e2, one that matches nothing
SelectorInputs == { <<".", "o", "k">>, <<"#", "x">> }

\* text queries: one two elements contain, one none contains, and one that
\* e1 contains and that has double quotes in it
TextInputs == { <<"O", "k">>, <<"Z">>, <<"\"", "O", "k", "\"">> }

OutlineValues == {"", "1px solid blue"}

CursorValues == {"", "pointer"}

PageIds == <<"p1", "p2", "p3", "p4", "p5">>

PageLists == {[i \in 1..k |-> PageIds[i]] : k \in 0..MaxPages}

\* the places on a click's path where the page has listeners of its own: on
\* the target, and possibly a capturing one on window or on document
PageListenerSets == {{"target"}, {"window", "target"}, {"document", "target"}}

\* Documents for selector synthesis: every tree of MaxNodes elements under
\* an html root, each other element a div, a span or an SVG clipPath, with
\* or without the id "1:" (so that ids can repeat), the second element with
\* or without the class "c".
NodeIds == <<"n1", "n2", "n3", "n4", "n5", "n6">>

TagNames == {"DIV", "SPAN", "clipPath"}

DocIds == {<<>>, <<"1", ":">>}

DocClassLists == {<<>>, << <<"c">> >>}

ParentMaps == {p \in [2..MaxNodes -> 1..MaxNodes] : \A i \in 2..MaxNodes : p[i] < i}

RECURSIVE KidsFrom(_, _, _)
KidsFrom(p, k, i) ==
    IF i > MaxNodes THEN <<>>
    ELSE (IF p[i] = k THEN <<NodeIds[i]>> ELSE <<>>) \o KidsFrom(p, k, i + 1)

MakeDoc(p, tags, ids, cls) ==
    [ parentElement |-> [n \in {NodeIds[k] : k \in 1..MaxNodes} |->
          LET k == CHOOSE j \in 1..MaxNodes : NodeIds[j] = n
          IN  IF k = 1 THEN Null ELSE NodeIds[p[k]]],
      children |-> [n \in {NodeIds[k] : k \in 1..MaxNodes} |->
          KidsFrom(p, CHOOSE j \in 1..MaxNodes : NodeIds[j] = n, 2)],
      nodeName |-> [n \in {NodeIds[k] : k \in 1..MaxNodes} |->
          LET k == CHOOSE j \in 1..MaxNodes : NodeIds[j] = n
          IN  IF k = 1 THEN "HTML" ELSE tags[k]],
      id |-> [n \in {NodeIds[k] : k \in 1..MaxNodes} |->
          LET k == CHOOSE j \in 1..MaxNodes : NodeIds[j] = n
          IN  IF k = 1 THEN <<>> ELSE ids[k]],
      classList |-> [n \in {NodeIds[k] : k \in 1..MaxNodes} |->
          IF n = NodeIds[2] THEN cls ELSE <<>>],
      isHTMLElement |-> [n \in {NodeIds[k] : k \in 1..MaxNodes} |->
          LET k == CHOOSE j \in 1..MaxNodes : NodeIds[j] = n
          IN  k = 1 \/ tags[k] # "clipPath"] ]

Documents ==
    {MakeDoc(p, tags, ids, cls) :
        p \in ParentMaps, tags \in [2..MaxNodes -> TagNames],
        ids \in [2..MaxNodes -> DocIds], cls \in DocClassLists}

(***************************************************************************)
(* Lookups the browser performs for the command.                           *)
(***************************************************************************)
\* the document's root element
rootOf(d) == CHOOSE n \in DOMAIN d.parentElement : d.parentElement[n] = Null

\* the elements below and including n, in document order
RECURSIVE Walk(_, _)
Walk(d, n) ==
    <<n>> \o Flatten([i \in 1..Len(d.children[n]) |-> Walk(d, d.children[n][i])])

\* the document's elements in document order
PreOrder(d) == Walk(d, rootOf(d))

Delimiters == {"#", ".", ":nth-of-type(", ")", " > "}

\* the compound selectors of a selector, split at the child combinators
RECURSIVE SplitCompounds(_)
SplitCompounds(sel) ==
    IF \A i \in 1..Len(sel) : sel[i] # " > " THEN <<sel>>
    ELSE LET k == CHOOSE i \in 1..Len(sel) :
                      sel[i] = " > " /\ \A j \in 1..(i - 1) : sel[j] # " > "
         IN  <<SubSeq(sel, 1, k - 1)>> \o SplitCompounds(SubSeq(sel, k + 1, Len(sel)))

\* the identifier at the front of s with its escapes decoded, and what
\* follows it: \3d and a space is the digit d, \c is the character c
RECURSIVE ReadIdent(_)
ReadIdent(s) ==
    IF s = <<>> \/ Head(s) \in Delimiters THEN [ident |-> <<>>, rest |-> s]
    ELSE IF Head(s) = "\\" /\ Len(s) >= 4 /\ s[2] = "3" /\ s[3] \in DigitChars
                           /\ s[4] = " "
         THEN LET r == ReadIdent(SubSeq(s, 5, Len(s)))
              IN  [ident |-> <<s[3]>> \o r.ident, rest |-> r.rest]
    ELSE IF Head(s) = "\\" /\ Len(s) >= 2
         THEN LET r == ReadIdent(SubSeq(s, 3, Len(s)))
              IN  [ident |-> <<s[2]>> \o r.ident, rest |-> r.rest]
    ELSE LET r == ReadIdent(Tail(s))
         IN  [ident |-> <<Head(s)>> \o r.ident, rest |-> r.rest]

\* an identifier starts at the front of s: it is not empty and does not
\* start with a bare digit
IdentStartOk(s) ==
    s # <<>> /\ Head(s) \notin Delimiters /\ Head(s) \notin DigitChars

\* the simple selectors of one compound selector: a type selector at the
\* front, then #id, .class and :nth-of-type(n) in any order
RECURSIVE ParseCompound(_, _)
ParseCompound(c, first) ==
    IF c = <<>> THEN <<>>
    ELSE IF Head(c) = "#"
         THEN LET r == ReadIdent(Tail(c))
              IN  <<[kind |-> "id", ident |-> r.ident, ok |-> IdentStartOk(Tail(c))]>>
                  \o ParseCompound(r.rest, FALSE)
    ELSE IF Head(c) = "."
         THEN LET r == ReadIdent(Tail(c))
              IN  <<[kind |-> "class", ident |-> r.ident,
                     ok |-> IdentStartOk(Tail(c))]>>
                  \o ParseCompound(r.rest, FALSE)
    ELSE IF Head(c) = ":nth-of-type("
         THEN IF Len(c) >= 3 /\ c[3] = ")"
              THEN <<[kind |-> "nth", ident |-> <<c[2]>>, ok |-> DigitValue(c[2]) > 0]>>
                   \o ParseCompound(SubSeq(c, 4, Len(c)), FALSE)
              ELSE <<[kind |-> "bad", ident |-> <<>>, ok |-> FALSE]>>
    ELSE IF first /\ Head(c) # ")"
         THEN LET r == ReadIdent(c)
              IN  <<[kind |-> "type", ident |-> r.ident, ok |-> IdentStartOk(c)]>>
                  \o ParseCompound(r.rest, FALSE)
    ELSE <<[kind |-> "bad", ident |-> <<>>, ok |-> FALSE]>>

\* the selector parses: querySelector throws a SyntaxError otherwise
validSelector(sel) ==
    /\ sel # <<>>
    /\ \A i \in 1..Len(SplitCompounds(sel)) :
           LET simples == ParseCompound(SplitCompounds(sel)[i], TRUE)
           IN  /\ simples # <<>>
               /\ \A j \in 1..Len(simples) : simples[j].ok

lowerChar(c) ==
    CASE c = "P" -> "p" [] c = "G" -> "g" [] c = "O" -> "o" [] OTHER -> c

\* the 1-based position of n among the children of its parent that have its
\* element type
nthOfType(d, n) ==
    LET p == d.parentElement[n]
    IN  IF p = Null THEN 1
        ELSE LET at == CHOOSE i \in 1..Len(d.children[p]) : d.children[p][i] = n
             IN  Cardinality({i \in 1..at :
                     d.nodeName[d.children[p][i]] = d.nodeName[n]})

\* one simple selector against one element.  A type selector is compared in
\* lower case with the name of an HTML element and as written with the name
\* of any other element.
MatchesSimple(d, n, simple) ==
    CASE simple.kind = "type" ->
             IF d.isHTMLElement[n]
             THEN [i \in 1..Len(simple.ident) |-> lowerChar(simple.ident[i])]
                      = toLowerCase(d.nodeName[n])
             ELSE simple.ident = nameChars(d.nodeName[n])
      [] simple.kind = "id" -> d.id[n] # <<>> /\ d.id[n] = simple.ident
      [] simple.kind = "class" ->
             \E i \in 1..Len(d.classList[n]) : d.classList[n][i] = simple.ident
      [] simple.kind = "nth" -> nthOfType(d, n) = DigitValue(simple.ident[1])
      [] OTHER -> FALSE

MatchesCompound(d, n, c) ==
    LET simples == ParseCompound(c, TRUE)
    IN  /\ simples # <<>>
        /\ \A j \in 1..Len(simples) : MatchesSimple(d, n, simples[j])

\* n matches the last compound, its parent the one before, and so on
RECURSIVE MatchesChain(_, _, _)
MatchesChain(d, n, compounds) ==
    LET k == Len(compounds)
    IN  /\ MatchesCompound(d, n, compounds[k])
        /\ \/ k = 1
           \/ /\ d.parentElement[n] # Null
              /\ MatchesChain(d, d.parentElement[n], SubSeq(compounds, 1, k - 1))

\* page.$(selector), document.querySelector: the first match in document
\* order, or null
querySelector(d, sel) ==
    LET order == PreOrder(d)
        hits  == {i \in 1..Len(order) :
                      validSelector(sel) /\ MatchesChain(d, order[i], SplitCompounds(sel))}
    IN  IF hits = {} THEN Null
        ELSE order[CHOOSE i \in hits : \A j \in hits : i <= j]

Contains(s, q) ==
    \E i \in 0..(Len(s) - Len(q)) : SubSeq(s, i + 1, i + Len(q)) = q

RECURSIVE Collapse(_)
Collapse(s) ==
    IF Len(s) < 2 THEN s
    ELSE IF s[1] = " " /\ s[2] = " " THEN Collapse(Tail(s))
    ELSE <<Head(s)>> \o Collapse(Tail(s))

normalizeSpace(s) == Collapse(trim(s))

\* the elements whose text node contains q once its white space is normalized
RECURSIVE TextMatches(_, _, _)
TextMatches(d, order, q) ==
    IF order = <<>> THEN <<>>
    ELSE IF d.text[Head(order)] # <<>> /\ Contains(normalizeSpace(d.text[Head(order)]), q)
         THEN <<Head(order)>> \o TextMatches(d, Tail(order), q)
         ELSE TextMatches(d, Tail(order), q)

\* text.replace(/"/g, '\\"')
escapeQuotes(text) ==
    Flatten([i \in 1..Len(text) |->
        IF text[i] = "\"" THEN <<"\\", "\"">> ELSE <<text[i]>>])

\* `//*[contains(normalize-space(text()), "${escaped}")]`
xpathFor(text) ==
    <<"//*[contains(normalize-space(text()), ", "\"">>
    \o escapeQuotes(text) \o <<"\"", ")]">>

\* the string literal of the expression: XPath 1.0 has no escapes, the
\* literal runs from its opening quote to the next quote
xpathLiteral(expr) ==
    LET body == SubSeq(expr, 3, Len(expr))
        k    == CHOOSE i \in 1..Len(body) :
                    body[i] = "\"" /\ \A j \in 1..(i - 1) : body[j] # "\""
    IN  [value |-> SubSeq(body, 1, k - 1), rest |-> SubSeq(body, k + 1, Len(body))]

\* page.$x(expression): the matches in document order; an expression that
\* does not parse makes the call throw
evaluateXPath(d, expr) ==
    LET lit == xpathLiteral(expr)
    IN  IF lit.rest # <<")]">>
        THEN [threw |-> TRUE, handles |-> <<>>]
        ELSE [threw |-> FALSE, handles |-> TextMatches(d, PreOrder(d), lit.value)]

\* findByText: the first candidate is kept, the rest are disposed
findByText(d, text) ==
    LET r == evaluateXPath(d, xpathFor(text))
        handles == r.handles
    IN  IF r.threw
        THEN [threw |-> TRUE, first |-> Null, disposed |-> {}]
        ELSE IF Len(handles) = 0
        THEN [threw |-> FALSE, first |-> Null, disposed |-> {}]
        ELSE [threw |-> FALSE, first |-> Head(handles),
              disposed |-> {handles[i] : i \in 2..Len(handles)}]

(***************************************************************************)
(* Initial state: the command has parsed its arguments; the page is        *)
(* untouched.                                                              *)
(***************************************************************************)
\* JavaScript values the connection settings can have: undefined, a string,
\* a finite number, NaN, an infinity
Undefined == [kind |-> "undefined", n |-> 0, s |-> <<>>]

Str(chars) == [kind |-> "str", n |-> 0, s |-> chars]

JsNum(k) == [kind |-> "num", n |-> k, s |-> <<>>]

NaN == [kind |-> "nan", n |-> 0, s |-> <<>>]

Infinity == [kind |-> "inf", n |-> 0, s |-> <<>>]

\* resolveBrowserConnection not called
NoConn ==
    [ flags |-> [ws |-> Undefined, host |-> Undefined, port |-> Undefined],
      env |-> [BROWSER_WS_URL |-> Undefined, BROWSER_HOST |-> Undefined,
               BROWSER_PORT |-> Undefined],
      result |-> [shape |-> "none", browserWSEndpoint |-> Undefined,
                  browserURL |-> Undefined] ]

\* what `||` and the condition of `if` test
Truthy(v) ==
    \/ v.kind = "str" /\ v.s # <<>>
    \/ v.kind = "num" /\ v.n # 0
    \/ v.kind = "inf"

\* a ?? b
Coalesce(a, b) == IF a.kind = "undefined" THEN b ELSE a

\* a value inside a template literal
templateString(v) ==
    CASE v.kind = "str" -> v.s
      [] v.kind = "num" -> DecimalString(v.n)
      [] v.kind = "nan" -> <<"N", "a", "N">>
      [] v.kind = "inf" -> <<"I", "n", "f", "i", "n", "i", "t", "y">>
      [] OTHER -> <<"u", "n", "d", "e", "f", "i", "n", "e", "d">>

\* the endpoint with the environment's value put first
endpointOf_envFirst(flags, env) == Coalesce(env.BROWSER_WS_URL, flags.ws)

\* const endpoint = flags.ws ?? process.env.BROWSER_WS_URL
endpointOf(flags, env) == Coalesce(flags.ws, env.BROWSER_WS_URL)

\* resolveBrowserConnection(flags), with process.env as env
resolveBrowserConnection(flags, env) ==
    IF Truthy(flags.ws) \/ Truthy(env.BROWSER_WS_URL)
    THEN [ shape |-> "endpoint", browserWSEndpoint |-> endpointOf(flags, env),
           browserURL |-> Undefined ]
    ELSE LET host == Coalesce(flags.host, Coalesce(env.BROWSER_HOST,
                                                   Str(<<"localhost">>)))
             port == normalizeNumber(Coalesce(flags.port,
                                              Coalesce(env.BROWSER_PORT,
                                                       JsNum(DEFAULT_PORT))),
                                     DEFAULT_PORT)
         IN  [ shape |-> "url", browserWSEndpoint |-> Undefined,
               browserURL |-> Str(<<"http://">> \o templateString(host) \o <<":">>
                                  \o DecimalString(port)) ]

\* values of --ws and BROWSER_WS_URL: unset, empty, an address
WsFlags == {Undefined, Str(<<>>), Str(<<"w", "s", ":", "a">>)}

WsEnvs == {Undefined, Str(<<>>), Str(<<"w", "s", ":", "e">>)}

HostFlags == {Undefined, Str(<<"h">>)}

HostEnvs == {Undefined, Str(<<"e", "h">>)}

\* port texts: empty, a numeral, not a numeral, the infinity
PortStrings == { <<>>, <<"9", "3", "3", "3">>, <<"a", "b">>,
                 <<"I", "n", "f", "i", "n", "i", "t", "y">> }

\* flags.port after parseArgs: unset, NaN for a flag without value, or
\* Number(text)
PortFlags == {Undefined, NaN} \cup {StringToNumber(t) : t \in PortStrings}

PortEnvs == {Undefined} \cup {Str(t) : t \in PortStrings}

\* the commands that work on the active page
Commands == {"element", "navigate", "screenshot", "cookies"}

NoLookup == [called |-> FALSE, index |-> 0, page |-> Null]

NoActive == [c \in Commands |-> "unresolved"]

\* close.js not started
NoClose ==
    [ pc |-> "idle", force |-> FALSE, json |-> FALSE, platform |-> "linux",
      browser |-> FALSE, graceful |-> FALSE, forced |-> FALSE, closedTabs |-> 0,
      command |-> 0, anyKilled |-> FALSE, steps |-> <<>>, stdout |-> <<>> ]

\* no selector synthesized yet
NoProbe == [node |-> Null, selector |-> <<>>, queried |-> FALSE, found |-> Null]

NoClick ==
    [ target |-> Null, armed |-> FALSE, handled |-> FALSE, prevented |-> FALSE,
      stopped |-> FALSE, received |-> {}, defaultRan |-> FALSE ]

InitCommand ==
    /\ args \in [ sel : {<<>>} \cup SelectorInputs,
                  text : {<<>>} \cup TextInputs,
                  scroll : BOOLEAN, click : BOOLEAN, json : BOOLEAN,
                  timeout : TimeoutFlags ]
    /\ pages \in PageLists
    /\ pristine \in [ outline : {o \in [HtmlElements -> OutlineValues] :
                                     o["html"] = "" /\ o["body"] = ""
                                     /\ o["e2"] = "1px solid blue"},
                      cursor : CursorValues ]
    /\ pageListeners \in PageListenerSets
    /\ pageAlive = TRUE
    /\ outline = pristine.outline
    /\ cursor = pristine.cursor
    /\ scrollY = 0
    /\ window = [__BT_PICKED_ELEMENT |-> Null, __BT_PICKER_CANCEL |-> FALSE]
    /\ listeners = {}
    /\ timerId = 0
    /\ state = [highlight |-> Null, previousOutline |-> Null, resolved |-> FALSE]
    /\ originalCursor = ""
    /\ promise = [status |-> "none", value |-> NullResult]
    /\ cleanupCount = 0
    /\ outcomes = <<>>
    /\ lastClick = NoClick
    /\ pc = "connect"
    /\ browser = "none"
    /\ stdout = <<>>
    /\ stderr = <<>>
    /\ exitCode = -1
    /\ trace = <<>>
    /\ result = NullResult
    /\ elementResult = NoElement
    /\ disposed = {}

\* the functions and commands modelled on their own, not yet run
IdleSel == doc = Dom /\ probe = NoProbe

IdleConn == conn = NoConn

IdlePages == lookup = NoLookup /\ active = NoActive

IdleClose == close = NoClose

Init ==
    /\ InitCommand
    /\ IdleSel
    /\ IdleConn
    /\ IdlePages
    /\ IdleClose

\* element.js started without arguments, nothing done yet
IdleCommand ==
    /\ args = [sel |-> <<>>, text |-> <<>>, scroll |-> FALSE, click |-> FALSE,
               json |-> FALSE, timeout |-> Absent]
    /\ pristine = [outline |-> [e \in HtmlElements |->
                                   IF e = "e2" THEN "1px solid blue" ELSE ""],
                   cursor |-> ""]
    /\ pageListeners = {"target"}
    /\ InitCommand

(***************************************************************************)
(* The interactive picker: the closures pickElement evaluates in the page. *)
(***************************************************************************)
\* cleanup clearing the highlighted element's outline instead of restoring it
cleanupOutline_cleared(ol, st) ==
    IF st.highlight # Null THEN [ol EXCEPT ![st.highlight] = ""] ELSE ol

\* cleanup, the highlighted element's outline
cleanupOutline(ol, st) ==
    IF st.highlight # Null
    THEN [ol EXCEPT ![st.highlight] =
              IF st.previousOutline = Null THEN "" ELSE st.previousOutline]
    ELSE ol

\* cleanup, the listeners it removes
cleanupListeners(ls) == ls \ {"mouseover", "click"}

\* highlight(element) without reverting the previously highlighted element
highlight_noRevert(ol, st, element) ==
    IF st.highlight = element THEN [outline |-> ol, state |-> st]
    ELSE [ outline |-> [ol EXCEPT ![element] = PickerOutline],
           state   |-> [st EXCEPT !.highlight = element,
                                  !.previousOutline = ol[element]] ]

\* highlight(element): the outlines and the picker state afterwards
highlight(ol, st, element) ==
    IF st.highlight = element THEN [outline |-> ol, state |-> st]
    ELSE LET reverted == IF st.highlight # Null
                         THEN [ol EXCEPT ![st.highlight] =
                                   IF st.previousOutline = Null THEN ""
                                   ELSE st.previousOutline]
                         ELSE ol
         IN  [ outline |-> [reverted EXCEPT ![element] = PickerOutline],
               state   |-> [st EXCEPT !.highlight = element,
                                      !.previousOutline = reverted[element]] ]

\* the guard each terminal handler checks before it acts
clickGuard(st) == ~st.resolved

timerGuard(st) == ~st.resolved

\* the focus handler without its guard
blurGuard_noGuard(st) == TRUE

blurGuard(st) == ~st.resolved

cancelGuard(st) == ~st.resolved

\* onClick without preventDefault
onClickIntercept_noPrevent == [prevented |-> FALSE, stopped |-> TRUE]

\* what onClick does to the event before the guard
onClickIntercept == [prevented |-> TRUE, stopped |-> TRUE]

\* resolve(value) of the in-page promise: only the first call settles it
resolve(p, value) ==
    IF p.status = "pending" THEN [status |-> "settled", value |-> value] ELSE p

\* the timer delay pickElement hands to the page: timeoutMs || 60000
pickerTimeout(timeoutMs) ==
    IF timeoutMs # 0 THEN timeoutMs ELSE PICKER_FALLBACK_TIMEOUT

\* the in-page arming: timerId = timeout ? setTimeout(..., timeout) : null,
\* with 0 standing for "no timer"
armTimer(t) ==
    IF t # 0 THEN t ELSE 0

\* const timeout = normalizeNumber(args.timeout, 15000), after parseArgs'
\* default for an absent flag
timeout ==
    normalizeNumber(IF args.timeout.kind = "absent" THEN Num(DEFAULT_TIMEOUT)
                    ELSE args.timeout, DEFAULT_TIMEOUT)

\* a terminal handler whose guard passed: mark resolved, cleanup, resolve.
\* ls is the listener set the handler started from, t the event's target.
Settle(by, t, value, ls) ==
    /\ state' = [state EXCEPT !.resolved = TRUE]
    /\ outline' = cleanupOutline(outline, state)
    /\ cursor' = originalCursor
    /\ listeners' = cleanupListeners(ls)
    /\ timerId' = 0
    /\ cleanupCount' = cleanupCount + 1
    /\ promise' = resolve(promise, value)
    /\ outcomes' = Append(outcomes, [by |-> by, target |-> t])

\* a handler that returned at its guard
NoSettle(ls) ==
    /\ listeners' = ls
    /\ UNCHANGED <<state, outline, cursor, timerId, cleanupCount, promise, outcomes>>

\* a click event travelling window -> document -> target.  The picker's
\* listener runs at document in the capture phase; stopPropagation keeps the
\* event from the nodes after document, not from listeners on window or from
\* other listeners on document.
DispatchClick(t) ==
    LET pickerRuns == "click" \in listeners
        flags == IF pickerRuns THEN onClickIntercept
                 ELSE [prevented |-> FALSE, stopped |-> FALSE]
        delivered == {"window", "document"}
                     \cup (IF flags.stopped THEN {} ELSE {"target"})
    IN  /\ lastClick' =
              [ target |-> t, armed |-> "click" \in listeners, handled |-> pickerRuns,
                prevented |-> flags.prevented, stopped |-> flags.stopped,
                received |-> delivered \cap pageListeners,
                defaultRan |-> ~flags.prevented ]
        /\ IF pickerRuns /\ clickGuard(state)
           THEN /\ Settle("Resolved", t, resolveSelection(Dom, t, scrollY), listeners)
                /\ window' = [window EXCEPT !.__BT_PICKED_ELEMENT = t]
           ELSE /\ NoSettle(listeners)
                /\ UNCHANGED window
        /\ UNCHANGED <<pristine, pageListeners, pageAlive, scrollY, originalCursor>>

\* onHover
Hover(t) ==
    /\ pageAlive
    /\ "mouseover" \in listeners
    /\ IF ~state.resolved /\ Dom.isHTMLElement[t]
       THEN /\ outline' = highlight(outline, state, t).outline
            /\ state' = highlight(outline, state, t).state
       ELSE UNCHANGED <<outline, state>>
    /\ UNCHANGED <<pristine, pageListeners, pageAlive, cursor, scrollY, window, listeners,
                   timerId, originalCursor, promise, cleanupCount, outcomes, lastClick>>
    /\ UNCHANGED hostVars
    /\ UNCHANGED sideVars

\* the user clicks in the page
Click(t) ==
    /\ pageAlive
    /\ promise.status # "none"
    /\ DispatchClick(t)
    /\ UNCHANGED hostVars
    /\ UNCHANGED sideVars

\* the in-page timer fires
TimerFire ==
    /\ pageAlive
    /\ timerId # 0
    /\ IF timerGuard(state)
       THEN Settle("TimedOut", Null, NullResult, listeners)
       ELSE /\ timerId' = 0
            /\ UNCHANGED <<state, outline, cursor, listeners, cleanupCount, promise,
                           outcomes>>
    /\ UNCHANGED <<pristine, pageListeners, pageAlive, scrollY, window, originalCursor,
                   lastClick>>
    /\ UNCHANGED hostVars
    /\ UNCHANGED sideVars

\* the window loses focus; the listener was registered with once: true
Blur ==
    /\ pageAlive
    /\ "blur" \in listeners
    /\ IF blurGuard(state)
       THEN Settle("Cancelled", Null, NullResult, listeners \ {"blur"})
       ELSE NoSettle(listeners \ {"blur"})
    /\ UNCHANGED <<pristine, pageListeners, pageAlive, scrollY, window, originalCursor,
                   lastClick>>
    /\ UNCHANGED hostVars
    /\ UNCHANGED sideVars

\* something calls window.__BT_PICKER_CANCEL()
CancelHook ==
    /\ pageAlive
    /\ window.__BT_PICKER_CANCEL
    /\ IF cancelGuard(state)
       THEN Settle("Cancelled", Null, NullResult, listeners)
       ELSE NoSettle(listeners)
    /\ UNCHANGED <<pristine, pageListeners, pageAlive, scrollY, window, originalCursor,
                   lastClick>>
    /\ UNCHANGED hostVars
    /\ UNCHANGED sideVars

\* the page's event loop stops running (a modal dialog, a paused debugger, a
\* script that never yields) while the picker waits
PageStall ==
    /\ pageAlive
    /\ pc = "picking"
    /\ promise.status = "pending"
    /\ pageAlive' = FALSE
    /\ UNCHANGED <<pristine, pageListeners, outline, cursor, scrollY, window, listeners,
                   timerId, state, originalCursor, promise, cleanupCount, outcomes,
                   lastClick>>
    /\ UNCHANGED hostVars
    /\ UNCHANGED sideVars

(***************************************************************************)
(* The controlling process: main of element.js.                            *)
(***************************************************************************)
Msg(text, arg) == [text |-> text, arg |-> arg]

\* printJSON(value)
printJSON(out, value) == Append(out, [kind |-> "json", value |-> value])

\* logger.info(...): written to stderr unless --json (or --quiet) is set
loggerInfo(err, line) == IF args.json THEN err ELSE Append(err, line)

\* fail(message, { json }): report, then process.exit(1).  The process ends
\* inside the call: no enclosing finally block runs.
Fail(message) ==
    /\ stdout' = IF args.json
                 THEN printJSON(stdout, [ok |-> FALSE, error |-> message])
                 ELSE stdout
    /\ stderr' = IF args.json THEN stderr ELSE Append(stderr, message)
    /\ exitCode' = 1
    /\ pc' = "exited"
    /\ trace' = Append(trace, "exit")
    /\ UNCHANGED browser

\* the not-found message with the text query tested ahead of the selector
NotFoundMessage_textFirst ==
    IF args.text # <<>> THEN Msg("No element found containing text: ", args.text)
    ELSE IF args.sel # <<>> THEN Msg("Selector not found: ", args.sel)
    ELSE Msg("No element selected.", <<>>)

\* the not-found message without the final alternative
NotFoundMessage_noPickerCase ==
    IF args.sel # <<>> THEN Msg("Selector not found: ", args.sel)
    ELSE Msg("No element found containing text: ", args.text)

\* the message main picks when resolveElement returned nothing
NotFoundMessage ==
    IF args.sel # <<>> THEN Msg("Selector not found: ", args.sel)
    ELSE IF args.text # <<>> THEN Msg("No element found containing text: ", args.text)
    ELSE Msg("No element selected.", <<>>)

\* main with the click block ahead of the scroll block
AfterResolve_clickFirst ==
    IF args.click THEN "click" ELSE IF args.scroll THEN "scroll" ELSE "output"

\* where main continues once the element is resolved
AfterResolve ==
    IF args.scroll THEN "scroll" ELSE IF args.click THEN "click" ELSE "output"

\* formatHumanOutput(info): the lines written when --json is absent
formatHumanOutput(info) ==
    << <<"selector: ", info.selector>> >>
    \o (IF info.tag # <<>> THEN << <<"tag: ", info.tag>> >> ELSE <<>>)
    \o (IF info.id # <<>> THEN << <<"id: ", info.id>> >> ELSE <<>>)
    \o (IF Len(info.classes) > 0
        THEN << <<"classes: ", Join(info.classes, <<" ">>)>> >> ELSE <<>>)
    \o (IF info.text # <<>> THEN << <<"text: ", info.text>> >> ELSE <<>>)
    \o << <<"visible: ", info.visible>>, <<"children: ", info.children>>,
          <<"position: ", info.rect>>, <<"size: ", info.rect>> >>

\* the success payload main builds from info
OutputOf(info) ==
    [ ok |-> TRUE, selector |-> info.selector, tag |-> info.tag, id |-> info.id,
      classes |-> info.classes, text |-> info.text, attributes |-> info.attributes,
      rect |-> info.rect, visible |-> info.visible, children |-> info.children ]

\* puppeteer.connect succeeds, or throws and main fails
Connect ==
    /\ pc = "connect"
    /\ \/ /\ browser' = "connected"
          /\ pc' = "getPage"
          /\ trace' = Append(trace, "connect")
          /\ UNCHANGED <<stdout, stderr, exitCode>>
       \/ Fail(Msg("Failed to connect to browser: ", <<>>))
    /\ UNCHANGED <<args, pages, result, elementResult>>
    /\ UNCHANGED pageVars
    /\ UNCHANGED disposed
    /\ UNCHANGED sideVars

\* getActivePage(browser, { index: -1 }) and the no-page check
GetPage ==
    /\ pc = "getPage"
    /\ IF getActivePage(pages, MOST_RECENT) = Null
       THEN Fail(Msg("No active page found. Navigate first.", <<>>))
       ELSE /\ pc' = "resolve"
            /\ trace' = Append(trace, "page")
            /\ UNCHANGED <<browser, stdout, stderr, exitCode>>
    /\ UNCHANGED <<args, pages, result, elementResult>>
    /\ UNCHANGED pageVars
    /\ UNCHANGED disposed
    /\ UNCHANGED sideVars

\* resolveElement with the text query tested ahead of the selector
resolveMode_textFirst(a) ==
    IF a.text # <<>> THEN "text" ELSE IF a.sel # <<>> THEN "selector" ELSE "picker"

\* the mode resolveElement takes: if (rawSelector), then if (rawText), then
\* the picker
resolveMode(a) ==
    IF a.sel # <<>> THEN "selector" ELSE IF a.text # <<>> THEN "text" ELSE "picker"

\* resolveElement, direct selector mode, and main's not-found check
ResolveSelector ==
    /\ pc = "resolve"
    /\ resolveMode(args) = "selector"
    /\ LET handle == querySelector(Dom, args.sel)
       IN  IF handle = Null
           THEN /\ Fail(NotFoundMessage)
                /\ UNCHANGED elementResult
           ELSE /\ elementResult' =
                      [ handle |-> handle,
                        info |-> collectElementInfo(Dom, handle, args.sel, scrollY) ]
                /\ pc' = AfterResolve
                /\ trace' = Append(trace, "capture")
                /\ UNCHANGED <<browser, stdout, stderr, exitCode>>
    /\ UNCHANGED <<args, pages, result>>
    /\ UNCHANGED pageVars
    /\ UNCHANGED disposed
    /\ UNCHANGED sideVars

\* resolveElement, text mode, and main's not-found check
ResolveText ==
    /\ pc = "resolve"
    /\ resolveMode(args) = "text"
    /\ LET found == findByText(Dom, args.text)
           handle == found.first
       IN  /\ disposed' = disposed \cup found.disposed
           /\ IF found.threw
              THEN /\ Fail(Msg("Element lookup failed: ", <<>>))
                   /\ UNCHANGED elementResult
              ELSE IF handle = Null
              THEN /\ Fail(NotFoundMessage)
                   /\ UNCHANGED elementResult
              ELSE /\ elementResult' =
                         [ handle |-> handle,
                           info |-> collectElementInfo(Dom, handle, NoHint, scrollY) ]
                   /\ pc' = AfterResolve
                   /\ trace' = Append(trace, "capture")
                   /\ UNCHANGED <<browser, stdout, stderr, exitCode>>
    /\ UNCHANGED <<args, pages, result>>
    /\ UNCHANGED pageVars
    /\ UNCHANGED sideVars

\* pickElement: page.evaluate starts the picker in the page; the function
\* runs synchronously up to the promise it awaits
PickStart ==
    /\ pc = "resolve"
    /\ resolveMode(args) = "picker"
    /\ pageAlive
    /\ originalCursor' = cursor
    /\ state' = [highlight |-> Null, previousOutline |-> Null, resolved |-> FALSE]
    /\ cursor' = PickerCursor
    /\ listeners' = {"mouseover", "click", "blur"}
    /\ timerId' = armTimer(pickerTimeout(timeout))
    /\ window' = [window EXCEPT !.__BT_PICKER_CANCEL = TRUE]
    /\ promise' = [status |-> "pending", value |-> NullResult]
    /\ pc' = "picking"
    /\ trace' = Append(trace, "pick")
    /\ UNCHANGED <<pristine, pageListeners, pageAlive, outline, scrollY, cleanupCount,
                   outcomes, lastClick>>
    /\ UNCHANGED <<args, pages, browser, stdout, stderr, exitCode, result,
                   elementResult>>
    /\ UNCHANGED disposed
    /\ UNCHANGED sideVars

\* page.evaluate returns once the in-page promise has settled
PickSettled ==
    /\ pc = "picking"
    /\ promise.status = "settled"
    /\ result' = promise.value
    /\ IF ~promise.value.some
       THEN Fail(NotFoundMessage)
       ELSE /\ pc' = "handoff"
            /\ UNCHANGED <<browser, stdout, stderr, exitCode, trace>>
    /\ UNCHANGED <<args, pages, elementResult>>
    /\ UNCHANGED pageVars
    /\ UNCHANGED disposed
    /\ UNCHANGED sideVars

\* the retrieval leaving the slot as it found it
clearHandoff_keepsElement(w) ==
    [w EXCEPT !.__BT_PICKER_CANCEL = FALSE]

\* the retrieval's two deletes: delete window.__BT_PICKED_ELEMENT and
\* delete window.__BT_PICKER_CANCEL
clearHandoff(w) ==
    [__BT_PICKED_ELEMENT |-> Null, __BT_PICKER_CANCEL |-> FALSE]

\* the handoff retrieval and the descriptor collection on the picked node
PickHandoff ==
    /\ pc = "handoff"
    /\ pageAlive
    /\ window' = clearHandoff(window)
    /\ LET element == window.__BT_PICKED_ELEMENT
       IN  IF element = Null
           THEN /\ Fail(NotFoundMessage)
                /\ UNCHANGED elementResult
           ELSE /\ elementResult' =
                      [ handle |-> element,
                        info |-> collectElementInfo(Dom, element, result.selector,
                                                    scrollY) ]
                /\ pc' = AfterResolve
                /\ trace' = Append(trace, "capture")
                /\ UNCHANGED <<browser, stdout, stderr, exitCode>>
    /\ UNCHANGED <<pristine, pageListeners, pageAlive, outline, cursor, scrollY, listeners,
                   timerId, state, originalCursor, promise, cleanupCount, outcomes,
                   lastClick>>
    /\ UNCHANGED <<args, pages, result>>
    /\ UNCHANGED disposed
    /\ UNCHANGED sideVars

\* handle.evaluate(el => el.scrollIntoView(...)) when --scroll is set
Scroll ==
    /\ pc = "scroll"
    /\ scrollY' = Dom.docY[elementResult.handle]
    /\ stderr' = loggerInfo(stderr, Msg("Element scrolled into view", <<>>))
    /\ pc' = IF args.click THEN "click" ELSE "output"
    /\ trace' = Append(trace, "scroll")
    /\ UNCHANGED <<pristine, pageListeners, pageAlive, outline, cursor, window, listeners,
                   timerId, state, originalCursor, promise, cleanupCount, outcomes,
                   lastClick>>
    /\ UNCHANGED <<args, pages, browser, stdout, exitCode, result, elementResult>>
    /\ UNCHANGED disposed
    /\ UNCHANGED sideVars

\* the message a throwing click would get without the inner try/catch
clickFailedMessage_outerCatch ==
    Msg("Element lookup failed: ", <<>>)

\* the inner catch around handle.click: fail(`Click failed: ${error.message}`)
clickFailedMessage ==
    Msg("Click failed: ", <<>>)

\* handle.click({ delay: 20 }) when --click is set: the click reaches the
\* page, or it throws and main fails with the click message
ClickElement ==
    /\ pc = "click"
    /\ \/ /\ DispatchClick(elementResult.handle)
          /\ stderr' = loggerInfo(stderr, Msg("Element clicked", <<>>))
          /\ pc' = "output"
          /\ trace' = Append(trace, "click")
          /\ UNCHANGED <<browser, stdout, exitCode>>
       \/ /\ Fail(clickFailedMessage)
          /\ UNCHANGED pageVars
    /\ UNCHANGED <<args, pages, result, elementResult>>
    /\ UNCHANGED disposed
    /\ UNCHANGED sideVars

\* the payload is built from info and written
Output ==
    /\ pc = "output"
    /\ LET output == OutputOf(elementResult.info)
       IN  IF args.json
           THEN /\ stdout' = printJSON(stdout, output)
                /\ UNCHANGED stderr
           ELSE /\ stderr' = loggerInfo(stderr, Msg("Element ", output.selector))
                /\ stdout' = Append(stdout, [kind |-> "text",
                                             value |-> formatHumanOutput(output)])
    /\ pc' = "dispose"
    /\ trace' = Append(trace, "output")
    /\ UNCHANGED <<args, pages, browser, exitCode, result, elementResult>>
    /\ UNCHANGED pageVars
    /\ UNCHANGED disposed
    /\ UNCHANGED sideVars

\* await handle.dispose()
Dispose ==
    /\ pc = "dispose"
    /\ disposed' = disposed \cup {elementResult.handle}
    /\ pc' = "finally"
    /\ trace' = Append(trace, "dispose")
    /\ UNCHANGED <<args, pages, browser, stdout, stderr, exitCode, result,
                   elementResult>>
    /\ UNCHANGED pageVars
    /\ UNCHANGED sideVars

\* an awaited call inside the try block rejects: the catch clause fails
LookupThrows ==
    /\ pc \in {"getPage", "resolve", "handoff", "scroll", "dispose"}
    /\ Fail(Msg("Element lookup failed: ", <<>>))
    /\ UNCHANGED <<args, pages, result, elementResult>>
    /\ UNCHANGED pageVars
    /\ UNCHANGED disposed
    /\ UNCHANGED sideVars

\* the finally clause, reached when the try block ran to its end
Finally ==
    /\ pc = "finally"
    /\ browser' = IF browser = "connected" THEN "disconnected" ELSE browser
    /\ pc' = "done"
    /\ exitCode' = 0
    /\ trace' = Append(trace, "disconnect")
    /\ UNCHANGED <<args, pages, stdout, stderr, result, elementResult>>
    /\ UNCHANGED pageVars
    /\ UNCHANGED disposed
    /\ UNCHANGED sideVars

Next ==
    \/ Connect
    \/ GetPage
    \/ ResolveSelector
    \/ ResolveText
    \/ PickStart
    \/ \E t \in Targets : Hover(t)
    \/ \E t \in Targets : Click(t)
    \/ TimerFire
    \/ Blur
    \/ CancelHook
    \/ PageStall
    \/ PickSettled
    \/ PickHandoff
    \/ Scroll
    \/ ClickElement
    \/ Output
    \/ Dispose
    \/ LookupThrows
    \/ Finally

Spec == Init /\ [][Next]_vars

\* Interactive runs only: no selector and no text query, one open page
InitPick ==
    /\ Init
    /\ args.sel = <<>>
    /\ args.text = <<>>
    /\ ~args.scroll
    /\ ~args.click
    /\ Len(pages) = 1
    /\ pageListeners = {"target"}

NextPick ==
    \/ Connect
    \/ GetPage
    \/ PickStart
    \/ \E t \in Targets : Hover(t)
    \/ \E t \in Targets : Click(t)
    \/ TimerFire
    \/ Blur
    \/ CancelHook
    \/ PageStall
    \/ PickSettled
    \/ PickHandoff
    \/ Output
    \/ Dispose
    \/ LookupThrows
    \/ Finally

\* the host's steps are taken whenever they stay enabled, and the in-page
\* timer fires while the page's event loop runs
FairSpec ==
    /\ InitPick
    /\ [][NextPick]_vars
    /\ WF_vars(Connect \/ GetPage \/ PickStart \/ PickSettled \/ PickHandoff
               \/ Output \/ Dispose \/ Finally)
    /\ WF_vars(TimerFire)

(***************************************************************************)
(* Selector synthesis on its own: toSelector applied to an element of a    *)
(* document, and the synthesized selector queried from the document root.  *)
(***************************************************************************)
InitSel ==
    /\ pages = <<>>
    /\ IdleCommand
    /\ doc \in Documents
    /\ probe = NoProbe
    /\ IdleConn
    /\ IdlePages
    /\ IdleClose

\* toSelector(element) on an element of the document
Synthesize(n) ==
    /\ probe' = [node |-> n, selector |-> toSelector(doc, n), queried |-> FALSE,
                 found |-> Null]
    /\ UNCHANGED <<pageVars, hostVars, doc, conn, pagesVars, close>>

\* document.querySelector(selector) with the synthesized selector; a
\* selector that does not parse makes the query throw
Query ==
    /\ probe.node # Null
    /\ ~probe.queried
    /\ probe' = [probe EXCEPT !.queried = TRUE,
                              !.found = IF validSelector(probe.selector)
                                        THEN querySelector(doc, probe.selector)
                                        ELSE "SyntaxError"]
    /\ UNCHANGED <<pageVars, hostVars, doc, conn, pagesVars, close>>

NextSel ==
    \/ \E n \in DOMAIN doc.parentElement : Synthesize(n)
    \/ Query

SpecSel == InitSel /\ [][NextSel]_vars

(***************************************************************************)
(* resolveBrowserConnection on its own.                                    *)
(***************************************************************************)
InitConn ==
    /\ pages = <<>>
    /\ IdleCommand
    /\ IdleSel
    /\ IdlePages
    /\ IdleClose
    /\ conn \in [ flags : [ws : WsFlags, host : HostFlags, port : PortFlags],
                   env : [BROWSER_WS_URL : WsEnvs, BROWSER_HOST : HostEnvs,
                          BROWSER_PORT : PortEnvs],
                   result : {NoConn.result} ]

ResolveConnection ==
    /\ conn.result.shape = "none"
    /\ conn' = [conn EXCEPT !.result = resolveBrowserConnection(conn.flags, conn.env)]
    /\ UNCHANGED <<pageVars, hostVars, probeVars, pagesVars, close>>

NextConn == ResolveConnection

SpecConn == InitConn /\ [][NextConn]_vars

(***************************************************************************)
(* getActivePage on its own, and as each command calls it.                 *)
(***************************************************************************)
\* the index each command passes to getActivePage
PageIndexOf ==
    [ element |-> MOST_RECENT, navigate |-> MOST_RECENT,
      screenshot |-> MOST_RECENT, cookies |-> 0 ]

\* indices tried: the sentinel, one below it, every position, one past the end
LookupIndices == -2..MaxPages

InitPages ==
    /\ IdleCommand
    /\ IdleSel
    /\ IdleConn
    /\ IdlePages
    /\ IdleClose

\* getActivePage(browser, { index })
Lookup ==
    /\ ~lookup.called
    /\ \E index \in LookupIndices :
           lookup' = [ called |-> TRUE, index |-> index,
                       page |-> getActivePage(pages, index) ]
    /\ UNCHANGED <<pageVars, hostVars, probeVars, conn, active, close>>

\* a command's own call of getActivePage at its start
ActivePageOf(c) ==
    /\ active[c] = "unresolved"
    /\ active' = [active EXCEPT ![c] = getActivePage(pages, PageIndexOf[c])]
    /\ UNCHANGED <<pageVars, hostVars, probeVars, conn, lookup, close>>

NextPages ==
    \/ Lookup
    \/ \E c \in Commands : ActivePageOf(c)

SpecPages == InitPages /\ [][NextPages]_vars

(***************************************************************************)
(* close.js.                                                               *)
(***************************************************************************)
Platforms == {"linux", "win32"}

\* buildTerminationCommands()
buildTerminationCommands(platform) ==
    IF platform = "win32"
    THEN <<"taskkill chrome.exe", "taskkill msedge.exe">>
    ELSE <<"pkill Google Chrome", "pkill chrome", "pkill chromium", "pkill msedge">>

\* forced termination for every run, whatever the graceful attempt gave
needsForce_always(r) == TRUE

\* if (!result.graceful)
needsForce(r) == ~r.graceful

\* the result object as it is written
closeReport(r) ==
    [ ok |-> TRUE, graceful |-> r.graceful, forced |-> r.forced,
      closedTabs |-> r.closedTabs ]

InitClose ==
    /\ IdleCommand
    /\ IdleSel
    /\ IdleConn
    /\ IdlePages
    /\ close \in { [NoClose EXCEPT !.pc = "start", !.force = f, !.json = j,
                                    !.platform = p] :
                        f \in BOOLEAN, j \in BOOLEAN, p \in Platforms }

CloseUnchanged == UNCHANGED <<pageVars, hostVars, probeVars, conn, pagesVars>>

\* --force: the graceful block is skipped
SkipGraceful ==
    /\ close.pc = "start"
    /\ close.force
    /\ close' = [close EXCEPT !.pc = IF needsForce(close) THEN "force" ELSE "report"]
    /\ CloseUnchanged

\* puppeteer.connect: it resolves, or it throws and the catch clause warns
CloseConnect ==
    /\ close.pc = "start"
    /\ ~close.force
    /\ \/ close' = [close EXCEPT !.pc = "pages", !.browser = TRUE,
                                  !.steps = Append(@, "connect")]
       \/ close' = [close EXCEPT !.pc = "finally", !.steps = Append(@, "connect")]
    /\ CloseUnchanged

\* browser.pages() and result.closedTabs = pages.length
ClosePages ==
    /\ close.pc = "pages"
    /\ \/ close' = [close EXCEPT !.pc = "close", !.closedTabs = Len(pages)]
       \/ close' = [close EXCEPT !.pc = "finally"]
    /\ CloseUnchanged

\* browser.close() and result.graceful = true
CloseBrowser ==
    /\ close.pc = "close"
    /\ \/ close' = [close EXCEPT !.pc = "finally", !.graceful = TRUE,
                                  !.steps = Append(@, "close")]
       \/ close' = [close EXCEPT !.pc = "finally", !.steps = Append(@, "close")]
    /\ CloseUnchanged

\* finally { if (browser) await browser.disconnect() }, then the test of
\* result.graceful
CloseFinally ==
    /\ close.pc = "finally"
    /\ close' = [close EXCEPT
                    !.pc = IF needsForce(close) THEN "force" ELSE "report",
                    !.steps = IF close.browser THEN Append(@, "disconnect") ELSE @]
    /\ CloseUnchanged

\* forceCloseProcesses: one spawnSync of the loop, with either exit status
ForceCommand ==
    /\ close.pc = "force"
    /\ close.command < Len(buildTerminationCommands(close.platform))
    /\ \E status \in {0, 1} :
           close' = [close EXCEPT !.command = @ + 1,
                                  !.anyKilled = @ \/ status = 0,
                                  !.steps = Append(@, "kill")]
    /\ CloseUnchanged

\* forceCloseProcesses: the lsof step where there is one, the return, and
\* result.forced = forced
ForceByPort ==
    /\ close.pc = "force"
    /\ close.command = Len(buildTerminationCommands(close.platform))
    /\ IF close.platform # "win32"
       THEN \E status \in {0, 1} :
                close' = [close EXCEPT !.pc = "report",
                                       !.anyKilled = @ \/ status = 0,
                                       !.forced = close.anyKilled \/ status = 0,
                                       !.steps = Append(@, "lsof")]
       ELSE close' = [close EXCEPT !.pc = "report", !.forced = close.anyKilled]
    /\ CloseUnchanged

\* the result written to stdout, as JSON with or without --json
CloseReport ==
    /\ close.pc = "report"
    /\ close' = [close EXCEPT !.pc = "done",
                              !.stdout = Append(@, [kind |-> "json",
                                                    value |-> closeReport(close)])]
    /\ CloseUnchanged

NextClose ==
    \/ SkipGraceful
    \/ CloseConnect
    \/ ClosePages
    \/ CloseBrowser
    \/ CloseFinally
    \/ ForceCommand
    \/ ForceByPort
    \/ CloseReport

SpecClose == InitClose /\ [][NextClose]_vars

(***************************************************************************)
(* Properties.                                                             *)
(***************************************************************************)
Has(seq, x) == \E i \in 1..Len(seq) : seq[i] = x

\* the selectors the page's nodes are expected to get, written out
ExpectedSelector(t) ==
    CASE t = "body" -> <<"h", "t", "m", "l", " > ", "b", "o", "d", "y">>
      [] t = "e1"   -> <<"#", "m", "\\", ":", "1">>
      [] t = "e2"   -> <<"h", "t", "m", "l", " > ", "b", "o", "d", "y", " > ",
                         "d", "i", "v", ".", "b", "t", "n", ".", "o", "k",
                         ":nth-of-type(", "2", ")">>
      [] t = "svg1" -> <<"#", "m", "\\", ":", "1", " > ", "s", "v", "g", ".", "i", "c">>

ExpectedTag(t) ==
    CASE t = "body" -> <<"b", "o", "d", "y">>
      [] t = "e1"   -> <<"d", "i", "v">>
      [] t = "e2"   -> <<"d", "i", "v">>
      [] t = "svg1" -> <<"s", "v", "g">>

NotSelected(out, err) ==
    \/ Has(err, Msg("No element selected.", <<>>))
    \/ Has(out, [kind |-> "json",
                 value |-> [ok |-> FALSE, error |-> Msg("No element selected.", <<>>)]])

\* C1: in one picker session cleanup runs at most once and at most one
\* terminal transition (Resolved, TimedOut, Cancelled) is taken, whatever the
\* interleaving of clicks, the timer, focus loss and the cancel hook; once the
\* guard flag is set no step changes the outcome, the promise or the styling.
C1_SingleTerminalTransition ==
    /\ [](cleanupCount <= 1 /\ Len(outcomes) <= 1)
    /\ [][state.resolved =>
             /\ outcomes' = outcomes
             /\ promise' = promise
             /\ cleanupCount' = cleanupCount
             /\ outline' = outline
             /\ cursor' = cursor]_vars

\* a focus loss arrived after a click had resolved the session
C1_Witness ==
    /\ state.resolved
    /\ Len(outcomes) = 1
    /\ outcomes[1].by = "Resolved"
    /\ "blur" \notin listeners
    /\ cleanupCount = 1

C3_DisconnectOnEveryExit ==
    (pc \in {"done", "exited"} /\ Has(trace, "connect")) => browser = "disconnected"

\* C4: when scroll and/or click are requested, the descriptor that is output
\* was captured after they were applied to the resolved node.
C4_CaptureAfterScrollAndClick ==
    Has(trace, "output") =>
        \A i, j \in 1..Len(trace) :
            (trace[i] \in {"scroll", "click"} /\ trace[j] = "capture") => i < j

\* C5: once a picker session has reached a terminal state, whatever was
\* hovered before, every element's outline and the body cursor have the
\* values they had before the session.
C5_StylingRestored ==
    state.resolved => (outline = pristine.outline /\ cursor = pristine.cursor)

\* the session ended while an element with an outline of its own was
\* highlighted, on a page whose cursor was set
C5_Witness ==
    /\ state.resolved
    /\ state.highlight = "e1"
    /\ state.previousOutline = "1px solid blue"
    /\ pristine.cursor = "pointer"
    /\ outline["e1"] = "1px solid blue"

\* C6: once a picker session has reached a terminal state, none of the
\* listeners it installed (mouseover, click, blur) is still installed.
C6_AllListenersRemoved ==
    state.resolved => listeners = {}

\* C7: pickElement always returns to the controlling process, also when the
\* in-page promise never settles.
C7_PickElementReturns ==
    (pc = "picking") ~> (pc # "picking")

\* C8: when the timer, a focus loss or the cancel hook ends the session
\* before any click, cleanup has run, the promise settles with no selection,
\* pickElement returns null and the command fails with "No element
\* selected.", emitting no descriptor.
C8_NoSelectionIsNotFound ==
    (outcomes # <<>> /\ outcomes[1].by \in {"TimedOut", "Cancelled"}) =>
        /\ cleanupCount = 1
        /\ promise = [status |-> "settled", value |-> NullResult]
        /\ elementResult = NoElement
        /\ ~Has(trace, "output")
        /\ pc \in {"picking", "exited"}
        /\ pc = "exited" =>
               /\ exitCode = 1
               /\ NotSelected(stdout, stderr)
               /\ Len(stdout) + Len(stderr) = 1

\* the command has failed after the in-page timer ended the session
C8_Witness ==
    /\ pc = "exited"
    /\ outcomes # <<>>
    /\ outcomes[1].by = "TimedOut"
    /\ NotSelected(stdout, stderr)

\* C9 as stated: a click dispatched while the picker's click listener is
\* installed is default-prevented and stopped, and no listener of the page
\* and no default action receives it.
C9_NoPageHandlerReceivesClick ==
    lastClick.armed =>
        /\ lastClick.prevented
        /\ lastClick.stopped
        /\ lastClick.received = {}
        /\ ~lastClick.defaultRan

\* C9, amended: a click that the picker's click listener handles is
\* default-prevented and stopped, so no listener on the click's target and
\* no default action receives it; capturing listeners the page has on window
\* or on document still run.
C9_HandledClickIsIntercepted ==
    lastClick.handled =>
        /\ lastClick.prevented
        /\ lastClick.stopped
        /\ "target" \notin lastClick.received
        /\ ~lastClick.defaultRan

\* the picker has handled a click on a page that listens on the target and,
\* capturing, on window
C9_Witness ==
    /\ lastClick.handled
    /\ pageListeners = {"window", "target"}
    /\ lastClick.received = {"window"}
    /\ state.resolved

C11_DefaultTimerIsSixtySeconds ==
    (args.timeout = Absent /\ pc = "picking" /\ ~state.resolved) =>
        timerId = 60000

\* C12: with a timeout of 0, or with none, no timer is armed while the picker
\* waits, and no session ends by the timer.
C12_ZeroDisablesTimer ==
    args.timeout \in {Absent, Num(0)} =>
        /\ (pc = "picking" /\ ~state.resolved) => timerId = 0
        /\ \A i \in 1..Len(outcomes) : outcomes[i].by # "TimedOut"

\* C13: whenever pickElement has returned, with a selection or with none, the
\* handoff slot window.__BT_PICKED_ELEMENT is empty; the slot's content is
\* taken out only by the host's retrieval step, which returns it and empties
\* the slot in the same step, and that step happens at most once.
C13_HandoffSlotEmptyOnReturn ==
    /\ []((/\ args.sel = <<>>
           /\ args.text = <<>>
           /\ Has(trace, "capture") \/ NotSelected(stdout, stderr)) =>
              window.__BT_PICKED_ELEMENT = Null)
    /\ [](Cardinality({i \in 1..Len(trace) : trace[i] = "capture"}) <= 1)
    /\ [][(/\ window.__BT_PICKED_ELEMENT # Null
           /\ window'.__BT_PICKED_ELEMENT # window.__BT_PICKED_ELEMENT) =>
              /\ pc = "handoff"
              /\ window'.__BT_PICKED_ELEMENT = Null
              /\ elementResult'.handle = window.__BT_PICKED_ELEMENT]_vars

\* pickElement has returned the clicked e1 and the slot is empty again
C13_Witness ==
    /\ args.sel = <<>>
    /\ args.text = <<>>
    /\ Has(trace, "capture")
    /\ elementResult.handle = "e1"
    /\ outcomes = <<[by |-> "Resolved", target |-> "e1"]>>
    /\ window.__BT_PICKED_ELEMENT = Null

\* C14: when both --scroll and --click are given for a resolved element, the
\* scroll is applied strictly before the click: no click precedes a scroll,
\* a click that happened was preceded by the scroll, and the click is
\* dispatched on the page as the scroll left it.
C14_ScrollBeforeClick ==
    /\ [](\A i, j \in 1..Len(trace) :
             (trace[i] = "scroll" /\ trace[j] = "click") => i < j)
    /\ []((args.scroll /\ args.click /\ Has(trace, "click")) =>
             Has(trace, "scroll"))
    /\ [][(args.scroll /\ args.click /\ ~Has(trace, "click")
                       /\ Has(trace', "click")) =>
             /\ Has(trace, "scroll")
             /\ scrollY = Dom.docY[elementResult.handle]
             /\ scrollY' = scrollY]_vars

\* e2, below the fold, has been scrolled to and then clicked
C14_Witness ==
    /\ args.scroll
    /\ args.click
    /\ elementResult.handle = "e2"
    /\ Has(trace, "scroll")
    /\ Has(trace, "click")
    /\ scrollY = 1

\* message m has been reported as the command's failure
Reported(m) ==
    \/ Has(stderr, m)
    \/ Has(stdout, [kind |-> "json", value |-> [ok |-> FALSE, error |-> m]])

\* a success payload has been written to stdout
SuccessEmitted ==
    \E i \in 1..Len(stdout) :
        \/ stdout[i].kind = "text"
        \/ stdout[i].kind = "json" /\ stdout[i].value.ok

\* C15: when the element was resolved but the click throws, the command
\* fails with the "Click failed: ..." message and exit status 1; it reports
\* neither a not-found message nor "Element lookup failed", and it emits no
\* success payload.
C15_ClickFailureIsDistinct ==
    /\ [][(pc = "click" /\ pc' = "exited") =>
             /\ elementResult # NoElement
             /\ exitCode' = 1
             /\ Len(stdout') + Len(stderr') = Len(stdout) + Len(stderr) + 1
             /\ \/ stderr' = Append(stderr, Msg("Click failed: ", <<>>))
                \/ stdout' = Append(stdout,
                       [kind |-> "json",
                        value |-> [ok |-> FALSE,
                                   error |-> Msg("Click failed: ", <<>>)]])]_vars
    /\ [](Reported(Msg("Click failed: ", <<>>)) =>
             /\ pc = "exited"
             /\ exitCode = 1
             /\ ~Reported(Msg("Element lookup failed: ", <<>>))
             /\ ~Reported(Msg("Selector not found: ", args.sel))
             /\ ~Reported(Msg("No element found containing text: ", args.text))
             /\ ~Reported(Msg("No element selected.", <<>>))
             /\ ~SuccessEmitted
             /\ ~Has(trace, "output"))

\* the click on the element found by the selector .ok has thrown
C15_Witness ==
    /\ args.sel = <<".", "o", "k">>
    /\ args.click
    /\ elementResult.handle = "e2"
    /\ pc = "exited"
    /\ Reported(Msg("Click failed: ", <<>>))

\* C16: a direct selector that matches no element (#x on this page) makes the
\* command, in JSON mode, write exactly { ok: false, error: "Selector not
\* found: #x" } and exit with status 1; no scroll, no click and no success
\* payload happen on the way.  A lookup that throws is the other way out of
\* the resolution step and is not a selector matching nothing.
C16_SelectorNotFound ==
    /\ [][(/\ pc = "resolve"
           /\ pc' # pc
           /\ args.sel = <<"#", "x">>
           /\ args.json
           /\ ~Has(stdout', [kind |-> "json",
                             value |-> [ok |-> FALSE,
                                        error |-> Msg("Element lookup failed: ", <<>>)]])) =>
              /\ stdout' = <<[kind |-> "json",
                              value |-> [ok |-> FALSE,
                                         error |-> Msg("Selector not found: ",
                                                       <<"#", "x">>)]]>>
              /\ stderr' = <<>>
              /\ exitCode' = 1
              /\ pc' = "exited"
              /\ elementResult' = NoElement]_vars
    /\ [](args.sel = <<"#", "x">> =>
              /\ ~Has(trace, "scroll")
              /\ ~Has(trace, "click")
              /\ ~Has(trace, "output")
              /\ ~SuccessEmitted
              /\ scrollY = 0
              /\ lastClick = NoClick
              /\ exitCode \in {-1, 1})

\* the command has failed on #x, given together with a text query, --scroll
\* and --click
C16_Witness ==
    /\ args.sel = <<"#", "x">>
    /\ args.text = <<"O", "k">>
    /\ args.json
    /\ args.scroll
    /\ args.click
    /\ pc = "exited"
    /\ exitCode = 1
    /\ Reported(Msg("Selector not found: ", <<"#", "x">>))

\* C17: in direct-selector mode the descriptor's selector field is the input
\* selector unchanged, in the descriptor resolveElement returns and in what
\* the command writes; the selector the synthesis would give the node is not
\* what is returned.
C17_SelectorEchoed ==
    (args.sel # <<>> /\ elementResult # NoElement) =>
        /\ elementResult.info.selector = args.sel
        /\ args.sel = <<".", "o", "k">> =>
               /\ elementResult.handle = "e2"
               /\ elementResult.info.selector # ExpectedSelector("e2")
        /\ \A i \in 1..Len(stdout) :
               /\ (stdout[i].kind = "json" /\ stdout[i].value.ok) =>
                      stdout[i].value.selector = args.sel
               /\ stdout[i].kind = "text" =>
                      /\ stdout[i].value[1] = <<"selector: ", args.sel>>
                      /\ Has(stderr, Msg("Element ", args.sel))

\* the command has written, as JSON, the descriptor of the node .ok found
C17_Witness ==
    /\ args.sel = <<".", "o", "k">>
    /\ elementResult.handle = "e2"
    /\ Has(trace, "output")
    /\ \E i \in 1..Len(stdout) :
           /\ stdout[i].kind = "json"
           /\ stdout[i].value.ok
           /\ stdout[i].value.selector = <<".", "o", "k">>
           /\ stdout[i].value.tag = <<"d", "i", "v">>

\* the page's elements in document order, written out
ExpectedOrder == <<"html", "body", "e1", "svg1", "e2">>

\* the positions in ExpectedOrder of the elements whose text contains q
MatchingPositions(q) ==
    {i \in 1..Len(ExpectedOrder) :
        /\ Dom.text[ExpectedOrder[i]] # <<>>
        /\ Contains(normalizeSpace(Dom.text[ExpectedOrder[i]]), q)}

\* C18: in text-query mode the resolution step returns the first element, in
\* document order, whose text contains the query, and has then disposed the
\* handle of every other element containing it; when no element contains the
\* query the step returns nothing and the command reports that no element was
\* found.
C18_FirstTextMatch ==
    [][ResolveText =>
          LET M == MatchingPositions(args.text)
          IN  IF M = {}
              THEN /\ elementResult' = NoElement
                   /\ disposed' = disposed
                   /\ \/ Has(stderr', Msg("No element found containing text: ",
                                          args.text))
                      \/ Has(stdout',
                             [kind |-> "json",
                              value |-> [ok |-> FALSE,
                                         error |-> Msg("No element found containing text: ",
                                                       args.text)]])
              ELSE LET first == CHOOSE i \in M : \A j \in M : i <= j
                   IN  /\ elementResult'.handle = ExpectedOrder[first]
                       /\ disposed' = {ExpectedOrder[j] : j \in M \ {first}}]_vars

\* the element n and its ancestors, the root first
RECURSIVE PathTo(_, _)
PathTo(d, n) ==
    IF n = Null THEN <<>> ELSE Append(PathTo(d, d.parentElement[n]), n)

\* n or one of its ancestors bears an id
HasIdAnchor(d, n) ==
    \E i \in 1..Len(PathTo(d, n)) : d.id[PathTo(d, n)[i]] # <<>>

\* C19: for every document and every element that bears an id or has an
\* ancestor bearing one, querying the document with the selector synthesized
\* for the element returns exactly that element.
C19_SelectorRoundTrip ==
    (probe.queried /\ HasIdAnchor(doc, probe.node)) => probe.found = probe.node

\* the positions, among the children of a's parent, of the children with a's
\* node name
SameTagPositions(d, a) ==
    LET kids == d.children[d.parentElement[a]]
    IN  {j \in 1..Len(kids) : d.nodeName[kids[j]] = d.nodeName[a]}

\* a's 1-based position among its same-tag siblings
SameTagPosition(d, a) ==
    LET kids == d.children[d.parentElement[a]]
        at   == CHOOSE j \in 1..Len(kids) : kids[j] = a
    IN  Cardinality({j \in SameTagPositions(d, a) : j <= at})

\* C20: for every element whose ancestor chain (the element included) carries
\* no id, the synthesized selector has one step per element of the chain,
\* and the step of a chain element ends in :nth-of-type(n), n its 1-based
\* position among its same-tag siblings, exactly when its parent has two or
\* more children of that tag; the other steps carry no such suffix.
C20_NthOfTypeWhereNeeded ==
    (probe.node # Null /\ ~HasIdAnchor(doc, probe.node)) =>
        LET path  == PathTo(doc, probe.node)
            steps == SplitCompounds(probe.selector)
        IN  /\ Len(steps) = Len(path)
            /\ \A i \in 1..Len(path) :
                   LET a == path[i]
                       c == steps[i]
                       suffixes == {j \in 1..Len(c) : c[j] = ":nth-of-type("}
                   IN  IF doc.parentElement[a] # Null
                          /\ Cardinality(SameTagPositions(doc, a)) >= 2
                       THEN /\ Len(c) >= 3
                            /\ suffixes = {Len(c) - 2}
                            /\ c[Len(c) - 1] = DigitTokens[SameTagPosition(doc, a)]
                            /\ c[Len(c)] = ")"
                       ELSE suffixes = {}

\* a selector synthesized for the second of two same-tag children of an
\* element that is itself an only child of its tag: the last step has the
\* suffix :nth-of-type(2), the step before it has none
C20_Witness ==
    /\ probe.node # Null
    /\ ~HasIdAnchor(doc, probe.node)
    /\ Len(PathTo(doc, probe.node)) = 3
    /\ LET steps == SplitCompounds(probe.selector)
       IN  /\ Len(steps) = 3
           /\ \A j \in 1..Len(steps[2]) : steps[2][j] # ":nth-of-type("
           /\ Len(steps[3]) >= 3
           /\ SubSeq(steps[3], Len(steps[3]) - 2, Len(steps[3]))
                  = <<":nth-of-type(", "2", ")">>

\* the positions in the path to n of the elements bearing an id
IdPositions(d, n) ==
    {i \in 1..Len(PathTo(d, n)) : d.id[PathTo(d, n)[i]] # <<>>}

\* C21: synthesis stops at the nearest element, the start element or an
\* ancestor, that has a non-empty id: the selector has one segment for that
\* element and one for each element below it on the path, none for an
\* element above it; its first segment is # followed by that id and has no
\* tag, class or nth-of-type part.
C21_StopsAtNearestId ==
    (probe.node # Null /\ HasIdAnchor(doc, probe.node)) =>
        LET path   == PathTo(doc, probe.node)
            k      == CHOOSE i \in IdPositions(doc, probe.node) :
                          \A j \in IdPositions(doc, probe.node) : j <= i
            steps  == SplitCompounds(probe.selector)
            anchor == steps[1]
        IN  /\ Len(steps) = Len(path) - k + 1
            /\ Head(anchor) = "#"
            /\ ReadIdent(Tail(anchor)) = [ident |-> doc.id[path[k]], rest |-> <<>>]
            /\ \A i \in 2..Len(steps) : Head(steps[i]) # "#"
            /\ \A i \in 2..Len(steps) :
                   SubSeq(steps[i], 1, Len(toLowerCase(doc.nodeName[path[k + i - 1]])))
                       = toLowerCase(doc.nodeName[path[k + i - 1]])

\* a selector synthesized for an element two levels below the root whose
\* parent bears the id, the root and the element bearing none
C21_Witness ==
    /\ probe.node # Null
    /\ Len(PathTo(doc, probe.node)) = 3
    /\ IdPositions(doc, probe.node) = {2}
    /\ Len(SplitCompounds(probe.selector)) = 2
    /\ Head(probe.selector) = "#"

\* a setting that is set to something: a string that is not empty
Present(v) == v.kind = "str" /\ v.s # <<>>

\* C22: resolveBrowserConnection returns exactly one of the two shapes; it
\* returns the endpoint shape whenever --ws or BROWSER_WS_URL is present and
\* the host/port shape otherwise; with both present the endpoint is the
\* explicit value, with only the environment's present it is the
\* environment's; the endpoint shape carries nothing made from host or port.
C22_OneShapeEndpointFirst ==
    conn.result.shape # "none" =>
        LET r == conn.result
            ws == conn.flags.ws
            envWs == conn.env.BROWSER_WS_URL
        IN  /\ r.shape \in {"endpoint", "url"}
            /\ (r.browserWSEndpoint = Undefined) # (r.browserURL = Undefined)
            /\ r.shape = "endpoint" <=> r.browserURL = Undefined
            /\ (Present(ws) \/ Present(envWs)) <=> r.shape = "endpoint"
            /\ Present(ws) => r.browserWSEndpoint = ws
            /\ (ws = Undefined /\ Present(envWs)) => r.browserWSEndpoint = envWs
            /\ r.shape = "endpoint" => r.browserWSEndpoint \in {ws, envWs}

\* both endpoints were present, with a host and a port given as well, and
\* the explicit endpoint was returned
C22_Witness ==
    /\ conn.flags.ws = Str(<<"w", "s", ":", "a">>)
    /\ conn.env.BROWSER_WS_URL = Str(<<"w", "s", ":", "e">>)
    /\ conn.flags.host = Str(<<"h">>)
    /\ conn.flags.port = JsNum(9333)
    /\ conn.result = [shape |-> "endpoint",
                      browserWSEndpoint |-> Str(<<"w", "s", ":", "a">>),
                      browserURL |-> Undefined]

\* the port handed to normalizeNumber, before the default is put in
SuppliedPort == Coalesce(conn.flags.port, conn.env.BROWSER_PORT)

\* a text that is a decimal numeral
IsNumeral(t) == t # <<>> /\ \A k \in 1..Len(t) : t[k] \in DecimalDigits

\* unset, NaN, an infinity, or a string that is not a numeral
NotFiniteNumber(v) ==
    \/ v.kind \in {"undefined", "nan", "inf"}
    \/ v.kind = "str" /\ ~IsNumeral(v.s)

\* C23: with no endpoint present, the host is localhost when it is unset and
\* the port is 9222 whenever the supplied port is unset or is not a finite
\* number (NaN, an infinity, a string that is not a number).
C23_DefaultsWhenUnsetOrMalformed ==
    conn.result.shape = "url" =>
        LET url == conn.result.browserURL.s
        IN  /\ conn.result.browserURL.kind = "str"
            /\ (conn.flags.host = Undefined /\ conn.env.BROWSER_HOST = Undefined)
                   => SubSeq(url, 1, 3) = <<"http://", "localhost", ":">>
            /\ NotFiniteNumber(SuppliedPort)
                   => /\ Len(url) >= 5
                      /\ SubSeq(url, Len(url) - 4, Len(url))
                             = <<":", "9", "2", "2", "2">>

\* C28: the endpoint of the endpoint shape is a string that is not empty; an
\* empty explicit ws value with the environment's endpoint set gives the
\* environment's endpoint.
C28_EndpointNeverEmpty ==
    conn.result.shape = "endpoint" =>
        /\ Present(conn.result.browserWSEndpoint)
        /\ (conn.flags.ws = Str(<<>>) /\ Present(conn.env.BROWSER_WS_URL))
               => conn.result.browserWSEndpoint = conn.env.BROWSER_WS_URL

\* C24: getActivePage returns null when no page is open, the last page in
\* enumeration order for the sentinel -1, otherwise the page at the position
\* or null when the position is out of range; the open pages stay as they
\* were.
C24_ActivePageLookup ==
    [][ (~lookup.called /\ lookup'.called) =>
            LET index == lookup'.index
                page == lookup'.page
                count == Len(pages)
            IN  /\ pages' = pages
                /\ count = 0 => page = Null
                /\ (count > 0 /\ index = -1) => page = pages[count]
                /\ (count > 0 /\ index \in 0..(count - 1)) => page = pages[index + 1]
                /\ (count > 0 /\ index \notin -1..(count - 1)) => page = Null
      ]_vars

\* two pages are open and the sentinel gave the second
C24_Witness ==
    /\ Len(pages) = 2
    /\ lookup = [called |-> TRUE, index |-> -1, page |-> pages[2]]

\* C30: with one or more pages open every page-targeting command resolves
\* the same page, the last one opened.
C30_SameActivePage ==
    Len(pages) >= 1 =>
        \A c \in Commands :
            active[c] # "unresolved" => active[c] = pages[Len(pages)]

\* C25: without --json the result written to stdout on success is still
\* JSON, and the human-readable lines go to stderr only.
C25_StdoutJsonWithoutFlag ==
    (~args.json /\ Has(trace, "output")) =>
        /\ Len(stdout) >= 1
        /\ \A i \in 1..Len(stdout) : stdout[i].kind = "json"

\* C27: once pickElement has returned, whatever the outcome (selection,
\* timeout, focus loss, cancel), window.__BT_PICKER_CANCEL is gone from the
\* page.
C27_NoCancelHookLeft ==
    (promise.status = "settled" /\ pc \notin {"picking", "handoff"}) =>
        ~window.__BT_PICKER_CANCEL

\* C29: with a selector and a text query both given the resolution uses the
\* selector only: the picker is not started and no text lookup runs, a
\* resolved element carries the input selector, and a selector matching
\* nothing is reported as "Selector not found".
C29_SelectorModeOnly ==
    [][ (/\ pc = "resolve"
         /\ pc' # pc
         /\ args.sel # <<>>
         /\ args.text # <<>>) =>
            /\ pc' # "picking"
            /\ window' = window
            /\ promise' = promise
            /\ listeners' = listeners
            /\ disposed' = disposed
            /\ ~Reported(Msg("No element found containing text: ", args.text))'
            /\ ~Reported(Msg("No element selected.", <<>>))'
            /\ \/ /\ elementResult' # NoElement
                  /\ elementResult'.info.selector = args.sel
                  /\ pc' # "exited"
               \/ /\ elementResult' = NoElement
                  /\ pc' = "exited"
                  /\ \/ Reported(Msg("Selector not found: ", args.sel))'
                     \/ Reported(Msg("Element lookup failed: ", <<>>))'
      ]_vars

\* #x was given with a text query that two elements contain, without --json,
\* and the command failed on the selector without starting the picker
C29_Witness ==
    /\ args.sel = <<"#", "x">>
    /\ args.text = <<"O", "k">>
    /\ ~args.json
    /\ pc = "exited"
    /\ stderr = <<Msg("Selector not found: ", <<"#", "x">>)>>
    /\ ~Has(trace, "pick")
    /\ disposed = {}

\* C26: close.js tries the graceful shutdown first unless --force is given,
\* tries forced termination exactly when the graceful shutdown was skipped or
\* did not succeed, and never reports graceful and forced both true.
C26_GracefulThenForced ==
    /\ close.force => (~Has(close.steps, "connect") /\ ~close.graceful)
    /\ (~close.force /\ close.steps # <<>>) => close.steps[1] = "connect"
    /\ close.graceful => Has(close.steps, "close")
    /\ Has(close.steps, "kill") => ~close.graceful
    /\ close.pc \in {"report", "done"} =>
           (Has(close.steps, "kill") <=> ~close.graceful)
    /\ ~(close.graceful /\ close.forced)
    /\ \A i \in 1..Len(close.stdout) :
           /\ ~(close.stdout[i].value.graceful /\ close.stdout[i].value.forced)
           /\ close.stdout[i].value.graceful = close.graceful
           /\ close.stdout[i].value.forced = close.forced

\* without --force the connection was made but browser.close() failed, and
\* the forced termination then killed something: reported forced, not
\* graceful
C26_Witness ==
    /\ ~close.force
    /\ close.pc = "done"
    /\ close.steps[1] = "connect"
    /\ Has(close.steps, "close")
    /\ Has(close.steps, "disconnect")
    /\ Has(close.steps, "kill")
    /\ close.stdout = <<[kind |-> "json",
                         value |-> [ok |-> TRUE, graceful |-> FALSE,
                                    forced |-> TRUE, closedTabs |-> Len(pages)]]>>
    /\ Len(pages) = 2

=============================================================================
